---- MODULE Spec2Model ----
(***************************************************************************)
(* A model of aiohomekit's Characteristic                                  *)
(* (aiohomekit/model/characteristics/characteristic.py): construction, the *)
(* guarded write path set_value, the BLE transport pair set_value_from_ble *)
(* and get_value_for_ble, get_value, set_events and the lenient conversion *)
(* check_convert_value.                                                    *)
(*                                                                         *)
(* Python objects are records [t, v]: t is the Python type and v the       *)
(* payload.  An int carries its integer; a float carries the number of     *)
(* halves it is worth (v = 101 is 50.5), so every float of the model is a  *)
(* multiple of 0.5, which binary floating point represents and subtracts   *)
(* exactly; a str carries its characters; bytes carry their octets.        *)
(***************************************************************************)
EXTENDS Integers, Sequences, FiniteSets, TLC

VARIABLES format, perms, minValue, maxValue, minStep, valid_values,
          kwargs_value, value, ev, last

vars == <<format, perms, minValue, maxValue, minStep, valid_values,
          kwargs_value, value, ev, last>>

(***************************************************************************)
(* Python values                                                           *)
(***************************************************************************)
PyNone == [t |-> "none", v |-> 0]

PyBool(b) == [t |-> "bool", v |-> IF b THEN 1 ELSE 0]

PyInt(n) == [t |-> "int", v |-> n]

\* the float worth h halves
PyFloat(h) == [t |-> "float", v |-> h]

PyStr(s) == [t |-> "str", v |-> s]

\* the str made of n letters "A" followed by p characters "="
PyRun(n, p) == [t |-> "strrun", v |-> <<n, p>>]

PyBytes(b) == [t |-> "bytes", v |-> b]

PyList(l) == [t |-> "list", v |-> l]

PyDict == [t |-> "dict", v |-> <<>>]

\* the marker of a keyword argument that was not passed
Absent == [t |-> "absent", v |-> 0]

IsNum(x) == x.t \in {"bool", "int", "float"}

IsStr(x) == x.t \in {"str", "strrun"}

\* the worth of a number in halves
Halves(x) == IF x.t = "float" THEN x.v ELSE 2 * x.v

\* Python's truth value of an object
Truthy(x) ==
    CASE x.t = "none" -> FALSE
      [] IsNum(x) -> x.v # 0
      [] x.t = "strrun" -> x.v[1] + x.v[2] > 0
      [] x.t \in {"str", "bytes", "list", "dict"} -> Len(x.v) > 0
      [] OTHER -> TRUE

\* Python's ==
PyEq(a, b) == IF IsNum(a) /\ IsNum(b) THEN Halves(a) = Halves(b) ELSE a = b

\* Python's max(a, b) and min(a, b) on numbers: the first argument wins a tie
PyMax(a, b) == IF Halves(b) > Halves(a) THEN b ELSE a

PyMin(a, b) == IF Halves(b) < Halves(a) THEN b ELSE a

\* Python's x in list
PyIn(x, l) == \E i \in 1..Len(l.v) : PyEq(x, l.v[i])

Abs(n) == IF n < 0 THEN -n ELSE n

RECURSIVE Pow(_, _)
Pow(b, e) == IF e = 0 THEN 1 ELSE b * Pow(b, e - 1)

(***************************************************************************)
(* Outcomes of a call: a return value or a raised exception.  FormatError  *)
(* and CharacteristicPermissionError carry a HapStatusCodes member, named  *)
(* here by its name; the exceptions of the Python runtime carry none.      *)
(***************************************************************************)
Ok(v) == [exc |-> "none", code |-> "", val |-> v]

Raise(e, c) == [exc |-> e, code |-> c, val |-> PyNone]

(***************************************************************************)
(* Text.  A str is a sequence of one-character strings.  The texts of the  *)
(* model are written with the digits, a sign, a point and ASCII letters,   *)
(* and their fractions are .0 or .5.                                       *)
(***************************************************************************)
DigitChars == <<"0", "1", "2", "3", "4", "5", "6", "7", "8", "9">>

IsDigit(c) == \E d \in 1..10 : DigitChars[d] = c

DigitVal(c) == (CHOOSE d \in 1..10 : DigitChars[d] = c) - 1

AllDigits(s) == \A i \in 1..Len(s) : IsDigit(s[i])

RECURSIVE DigitsVal(_)
DigitsVal(s) ==
    IF s = <<>> THEN 0
    ELSE 10 * DigitsVal(SubSeq(s, 1, Len(s) - 1)) + DigitVal(s[Len(s)])

RECURSIVE DigitsOf(_)
DigitsOf(n) ==
    IF n < 10 THEN <<DigitChars[n + 1]>>
    ELSE DigitsOf(n \div 10) \o <<DigitChars[(n % 10) + 1]>>

HasSign(s) == Len(s) > 0 /\ s[1] \in {"-", "+"}

Unsigned(s) == IF HasSign(s) THEN Tail(s) ELSE s

SignOf(s) == IF Len(s) > 0 /\ s[1] = "-" THEN -1 ELSE 1

\* the text of an integer literal, as int(str) accepts it
IsIntText(s) == Len(Unsigned(s)) > 0 /\ AllDigits(Unsigned(s))

IntOfText(s) == SignOf(s) * DigitsVal(Unsigned(s))

HasPoint(s) == \E i \in 1..Len(s) : s[i] = "."

PointAt(s) == CHOOSE i \in 1..Len(s) : s[i] = "." /\ \A j \in 1..(i - 1) : s[j] # "."

WholePart(s) == IF HasPoint(s) THEN SubSeq(s, 1, PointAt(s) - 1) ELSE s

FracPart(s) == IF HasPoint(s) THEN SubSeq(s, PointAt(s) + 1, Len(s)) ELSE <<>>

\* the text of a decimal literal, as float(str) and Decimal(str) accept it
IsDecimalText(s) ==
    LET u == Unsigned(s)
    IN  /\ AllDigits(WholePart(u))
        /\ AllDigits(FracPart(u))
        /\ Len(WholePart(u)) + Len(FracPart(u)) > 0

\* the worth in halves of a decimal literal whose fraction is .0 or .5
HalvesOfText(s) ==
    LET u == Unsigned(s)
    IN  SignOf(s) * (2 * DigitsVal(WholePart(u))
                     + (IF DigitsVal(FracPart(u)) = 0 THEN 0 ELSE 1))

\* truncation toward zero of h halves, as int(float) does
TruncHalves(h) == IF h >= 0 THEN h \div 2 ELSE -((-h) \div 2)

\* str(n) of an int
IntText(n) == IF n < 0 THEN <<"-">> \o DigitsOf(-n) ELSE DigitsOf(n)

\* str(x) of a float worth h halves: the repr, always with a fraction
FloatText(h) ==
    (IF h < 0 THEN <<"-">> ELSE <<>>)
        \o DigitsOf(Abs(h) \div 2) \o <<".">>
        \o (IF Abs(h) % 2 = 0 THEN <<"0">> ELSE <<"5">>)

\* str(x)
PyStrOf(x) ==
    CASE x.t = "none" -> PyStr(<<"N", "o", "n", "e">>)
      [] x.t = "bool" -> IF x.v = 1 THEN PyStr(<<"T", "r", "u", "e">>)
                                     ELSE PyStr(<<"F", "a", "l", "s", "e">>)
      [] x.t = "int" -> PyStr(IntText(x.v))
      [] x.t = "float" -> PyStr(FloatText(x.v))
      [] OTHER -> x

\* int(x)
PyIntOf(x) ==
    CASE x.t = "int" -> Ok(x)
      [] x.t = "bool" -> Ok(PyInt(x.v))
      [] x.t = "float" -> Ok(PyInt(TruncHalves(x.v)))
      [] x.t = "str" -> IF IsIntText(x.v) THEN Ok(PyInt(IntOfText(x.v)))
                        ELSE Raise("ValueError", "")
      [] x.t = "strrun" -> Raise("ValueError", "")
      [] OTHER -> Raise("TypeError", "")

\* float(x)
PyFloatOf(x) ==
    CASE IsNum(x) -> Ok(PyFloat(Halves(x)))
      [] x.t = "str" -> IF IsDecimalText(x.v) THEN Ok(PyFloat(HalvesOfText(x.v)))
                        ELSE Raise("ValueError", "")
      [] x.t = "strrun" -> Raise("ValueError", "")
      [] OTHER -> Raise("TypeError", "")

UpperChars == <<"A", "F", "N", "T">>

LowerChars == <<"a", "f", "n", "t">>

LowerChar(c) ==
    IF \E i \in 1..Len(UpperChars) : UpperChars[i] = c
    THEN LowerChars[CHOOSE i \in 1..Len(UpperChars) : UpperChars[i] = c]
    ELSE c

\* str.lower()
Lower(s) == [i \in 1..Len(s) |-> LowerChar(s[i])]

TrueTexts ==
    {<<"y">>, <<"y", "e", "s">>, <<"t">>, <<"t", "r", "u", "e">>, <<"o", "n">>, <<"1">>}

FalseTexts ==
    {<<"n">>, <<"n", "o">>, <<"f">>, <<"f", "a", "l", "s", "e">>, <<"o", "f", "f">>, <<"0">>}

\* distutils.util.strtobool(str(x)): the int 1 or 0, or ValueError
strtobool(x) ==
    LET s == PyStrOf(x)
        val == Lower(s.v)
    IN  IF s.t # "str" THEN Raise("ValueError", "")
        ELSE IF val \in TrueTexts THEN Ok(PyInt(1))
        ELSE IF val \in FalseTexts THEN Ok(PyInt(0))
        ELSE Raise("ValueError", "")

(***************************************************************************)
(* base64.decodebytes(text.encode()): the number of bytes decoded, or      *)
(* binascii.Error.  The decoder skips the characters outside the base64    *)
(* alphabet, stops at a satisfied padding and fails when the data          *)
(* characters do not fill their last group of four.                        *)
(***************************************************************************)
NonBase64Chars == {"-", ".", "=", "!"}

\* the scan of binascii.a2b_base64 from character i on: quad is the position
\* in the group of four, pads the padding seen since the last data character
RECURSIVE Base64Scan(_, _, _, _, _)
Base64Scan(s, i, quad, pads, n) ==
    IF i > Len(s) THEN [ok |-> quad = 0, n |-> n]
    ELSE IF s[i] = "=" THEN
        IF quad >= 2 /\ quad + pads + 1 >= 4 THEN [ok |-> TRUE, n |-> n]
        ELSE Base64Scan(s, i + 1, quad, pads + 1, n)
    ELSE IF s[i] \in NonBase64Chars THEN Base64Scan(s, i + 1, quad, pads, n)
    ELSE Base64Scan(s, i + 1, (quad + 1) % 4, 0, IF quad = 0 THEN n ELSE n + 1)

\* the same scan of a run of d letters followed by p characters "="
Base64Run(d, p) ==
    [ok |-> \/ d % 4 = 0
            \/ d % 4 = 2 /\ p >= 2
            \/ d % 4 = 3 /\ p >= 1,
     n |-> d - ((d + 3) \div 4)]

\* [ok, n] for a str; strs alone reach this
Base64Decoded(x) ==
    IF x.t = "strrun" THEN Base64Run(x.v[1], x.v[2]) ELSE Base64Scan(x.v, 1, 0, 0, 0)

\* len(x), for the objects that have one
PyLen(x) == IF x.t = "strrun" THEN x.v[1] + x.v[2] ELSE Len(x.v)

HasLen(x) == x.t \in {"str", "strrun", "bytes", "list", "dict"}

(***************************************************************************)
(* The characteristic                                                      *)
(***************************************************************************)
INTEGER_TYPES == {"uint64", "uint32", "uint16", "uint8", "int"}

NUMBER_TYPES == INTEGER_TYPES \cup {"float"}

\* DEFAULT_FOR_TYPE.get(f, None)
DEFAULT_FOR_TYPE(f) ==
    CASE f = "bool" -> PyBool(FALSE)
      [] f \in INTEGER_TYPES -> PyInt(0)
      [] f = "float" -> PyFloat(0)
      [] f = "string" -> PyStr(<<>>)
      [] f = "array" -> PyList(<<>>)
      [] f = "dict" -> PyDict
      [] OTHER -> PyNone

maxLen == 64

maxDataLen == 2097152

\* the constructor's step for a set minValue: a false value gives way to the
\* bound, and max() follows
MinDefault(v, lo) == IF Truthy(lo) THEN PyMax(IF ~Truthy(v) THEN lo ELSE v, lo) ELSE v

\* the same for a set maxValue, with min()
MaxDefault(v, hi) == IF Truthy(hi) THEN PyMin(IF ~Truthy(v) THEN hi ELSE v, hi) ELSE v

\* a constructor that would give a write-only characteristic its default too
InitialValue_ungated(f, p, lo, hi, vv, kwv) ==
    IF kwv # Absent THEN kwv
    ELSE IF Truthy(vv) THEN vv.v[1]
    ELSE MaxDefault(MinDefault(DEFAULT_FOR_TYPE(f), lo), hi)

\* self.value at the end of __init__
InitialValue(f, p, lo, hi, vv, kwv) ==
    IF "pr" \notin p THEN PyNone
    ELSE IF kwv # Absent THEN kwv
    ELSE IF Truthy(vv) THEN vv.v[1]
    ELSE MaxDefault(MinDefault(DEFAULT_FOR_TYPE(f), lo), hi)

\* the conversions at the head of set_value: int(), float() or strtobool(str())
\* by format; ValueError becomes FormatError, any other exception propagates
Converted(new_val) ==
    LET c == CASE format \in INTEGER_TYPES -> PyIntOf(new_val)
               [] format = "float" -> PyFloatOf(new_val)
               [] format = "bool" -> strtobool(new_val)
               [] OTHER -> Ok(new_val)
    IN  IF c.exc = "ValueError" THEN Raise("FormatError", "INVALID_VALUE") ELSE c

BelowMin(v) == minValue # PyNone /\ Halves(v) < Halves(minValue)

AboveMax(v) == maxValue # PyNone /\ Halves(maxValue) < Halves(v)

\* Decimal(str(tmp)) % Decimal(str(self.minStep)) != 0, tmp counted from minValue
OffStep(v) ==
    /\ minStep # PyNone
    /\ LET tmp == IF minValue # PyNone THEN Halves(v) - Halves(minValue) ELSE Halves(v)
       IN  Abs(tmp) % Halves(minStep) # 0

NotValid(v) == valid_values # PyNone /\ ~PyIn(v, valid_values)

\* the checks of a number against minValue, maxValue, minStep and valid_values
\* (valid_values_range is always None)
NumberRejected(v) == BelowMin(v) \/ AboveMax(v) \/ OffStep(v) \/ NotValid(v)

\* the check of the data format: base64 and maxDataLen
DataOutcome(v) ==
    IF ~IsStr(v) THEN Raise("FormatError", "OUT_OF_RESOURCES")
    ELSE LET byte_data == Base64Decoded(v)
         IN  IF ~byte_data.ok THEN Raise("FormatError", "INVALID_VALUE")
             ELSE IF maxDataLen < byte_data.n THEN Raise("FormatError", "INVALID_VALUE")
             ELSE Ok(v)

\* the check of the string format: maxLen
StringOutcome(v) ==
    IF ~HasLen(v) THEN Raise("TypeError", "")
    ELSE IF PyLen(v) > maxLen THEN Raise("FormatError", "INVALID_VALUE")
    ELSE Ok(v)

\* checks that would let every number through
Validated_nothing(v) ==
    CASE format = "data" -> DataOutcome(v)
      [] format = "string" -> StringOutcome(v)
      [] OTHER -> Ok(v)

\* the checks of set_value on the converted value
Validated(v) ==
    CASE format \in NUMBER_TYPES ->
            IF NumberRejected(v) THEN Raise("FormatError", "INVALID_VALUE") ELSE Ok(v)
      [] format = "data" -> DataOutcome(v)
      [] format = "string" -> StringOutcome(v)
      [] OTHER -> Ok(v)

\* a set_value that would not look at the permissions
set_value_outcome_unguarded(new_val) ==
    LET c == Converted(new_val)
    IN  IF c.exc # "none" THEN c ELSE Validated(c.val)

\* set_value(new_val): what it raises, or the value it assigns to self.value
set_value_outcome(new_val) ==
    IF "pw" \notin perms
    THEN Raise("CharacteristicPermissionError", "CANT_WRITE_READ_ONLY")
    ELSE LET c == Converted(new_val)
         IN  IF c.exc # "none" THEN c ELSE Validated(c.val)

\* self.value after a set_value that would assign the converted value before
\* it checks it
ValueAfterSet_early(new_val) ==
    IF "pw" \in perms /\ Converted(new_val).exc = "none"
    THEN Converted(new_val).val
    ELSE value

\* self.value after set_value(new_val): assigned last, once nothing was raised
ValueAfterSet(new_val) ==
    LET r == set_value_outcome(new_val)
    IN  IF r.exc = "none" THEN r.val ELSE value

\* get_value()
get_value_outcome ==
    IF "pr" \notin perms
    THEN Raise("CharacteristicPermissionError", "CANT_READ_WRITE_ONLY")
    ELSE Ok(value)

\* the record of the last call: its name, argument, exception and result
Called(op, arg, r, ret) ==
    [op |-> op, arg |-> arg, exc |-> r.exc, code |-> r.code, ret |-> ret]

(***************************************************************************)
(* check_convert_value: decimal arithmetic.  Inside the local context      *)
(* every subtraction, division, multiplication and addition is rounded to  *)
(* ctx.prec significant digits, ties away from zero (ROUND_HALF_UP).       *)
(***************************************************************************)
prec == 6

\* a rounding that would truncate
RoundHalfUp_truncating(a, b) == a \div b

\* a / b rounded to the nearest integer, ties up, for a >= 0 and b > 0
RoundHalfUp(a, b) == (2 * a + b) \div (2 * b)

\* the power of ten e with 10^(prec-1) <= (a / b) / 10^e < 10^prec, for a > 0
RECURSIVE Exponent10(_, _)
Exponent10(a, b) ==
    IF a >= b * Pow(10, prec) THEN Exponent10(a, b * 10) + 1
    ELSE IF a < b * Pow(10, prec - 1) THEN Exponent10(a * 10, b) - 1
    ELSE 0

\* a number of halves rounded to prec significant digits
Quantized(h) ==
    IF Abs(h) < 2 * Pow(10, prec - 1) THEN h
    ELSE LET e == Exponent10(Abs(h), 2)
         IN  (IF h < 0 THEN -1 ELSE 1)
             * 2 * RoundHalfUp(Abs(h), 2 * Pow(10, e)) * Pow(10, e)

\* (a / b) rounded to prec significant digits and then to an integer by
\* to_integral_value() under ROUND_HALF_UP, for a >= 0 and b > 0
QuotientSteps(a, b) ==
    IF a = 0 THEN 0
    ELSE LET e == Exponent10(a, b)
         IN  IF e >= 0 THEN RoundHalfUp(a, b * Pow(10, e)) * Pow(10, e)
             ELSE RoundHalfUp(RoundHalfUp(a * Pow(10, -e), b), Pow(10, -e))

\* offset + ((val - offset) / min_step).to_integral_value() * min_step, in halves
Snapped(h, offset, step) ==
    LET d == Quantized(h - offset)
        n == (IF d < 0 THEN -1 ELSE 1) * QuotientSteps(Abs(d), step)
    IN  Quantized(offset + Quantized(n * step))

\* Decimal(val) in halves; a text that is no number raises InvalidOperation,
\* which is no ValueError
DecimalOf(val) ==
    CASE IsNum(val) -> Ok(PyFloat(Halves(val)))
      [] val.t = "str" -> IF IsDecimalText(val.v) THEN Ok(PyFloat(HalvesOfText(val.v)))
                          ELSE Raise("InvalidOperation", "")
      [] val.t = "strrun" -> Raise("InvalidOperation", "")
      [] OTHER -> Raise("TypeError", "")

\* max(Decimal(char.minValue), val) and min(Decimal(char.maxValue), val)
Clamped(h) ==
    LET lo == IF minValue # PyNone /\ Halves(minValue) > h THEN Halves(minValue) ELSE h
    IN  IF maxValue # PyNone /\ Halves(maxValue) < lo THEN Halves(maxValue) ELSE lo

\* the step of check_convert_value that honours minStep
Stepped(h) ==
    IF minStep # PyNone
    THEN Snapped(h, IF minValue # PyNone THEN Halves(minValue) ELSE 0, Halves(minStep))
    ELSE h

\* Decimal.to_integral_value() outside the local context: ties to even
ToIntegralEven(h) ==
    IF h % 2 = 0 THEN h \div 2
    ELSE IF (h \div 2) % 2 = 0 THEN h \div 2 ELSE (h \div 2) + 1

\* the final cast: int(val.to_integral_value()) or float(val)
Cast(h) == IF format \in INTEGER_TYPES THEN PyInt(ToIntegralEven(h)) ELSE PyFloat(h)

\* check_convert_value(val, char)
check_convert_value(val) ==
    CASE format = "bool" ->
            LET b == strtobool(val)
            IN  IF b.exc # "none" THEN Raise("FormatError", "") ELSE Ok(b.val)
      [] format \in NUMBER_TYPES ->
            LET d == DecimalOf(val)
            IN  IF d.exc # "none" THEN d ELSE Ok(Cast(Stepped(Clamped(d.val.v))))
      [] format = "data" ->
            IF ~IsStr(val) THEN Raise("AttributeError", "")
            ELSE IF ~Base64Decoded(val).ok THEN Raise("FormatError", "")
            ELSE Ok(val)
      [] OTHER -> Ok(val)

(***************************************************************************)
(* The struct module and the codecs of the BLE transport.  Bytes are in    *)
(* native order, which is little-endian on the machines the library runs   *)
(* on.                                                                     *)
(***************************************************************************)
\* the unsigned number of little-endian bytes
RECURSIVE LEValue(_)
LEValue(b) == IF b = <<>> THEN 0 ELSE b[1] + 256 * LEValue(Tail(b))

\* the n little-endian bytes of u >= 0
RECURSIVE LEBytes(_, _)
LEBytes(u, n) == IF n = 0 THEN <<>> ELSE <<u % 256>> \o LEBytes(u \div 256, n - 1)

\* struct.unpack("i", b): two's complement on four bytes
SignedValue(b) ==
    LEValue(SubSeq(b, 1, 3)) + 16777216 * (IF b[4] >= 128 THEN b[4] - 256 ELSE b[4])

\* struct.pack("i", n): the low three bytes and the signed high byte
SignedBytes(n) == LEBytes(n % 16777216, 3) \o <<(n \div 16777216) % 256>>

RECURSIVE BitLength(_)
BitLength(a) == IF a = 0 THEN 0 ELSE 1 + BitLength(a \div 2)

\* a / 2^k rounded to the nearest integer, ties to even
RoundHalfEven(a, k) ==
    LET d == Pow(2, k)
        q == a \div d
        r == a % d
    IN  IF 2 * r > d \/ (2 * r = d /\ q % 2 = 1) THEN q + 1 ELSE q

\* the 24-bit significand of the float32 nearest to a halves, a > 0
Significand(a) ==
    IF BitLength(a) <= 24 THEN a * Pow(2, 24 - BitLength(a))
    ELSE RoundHalfEven(a, BitLength(a) - 24)

\* struct.pack("f", x) for x worth h halves: sign, biased exponent and the 23
\* stored bits of the significand, IEEE 754 binary32
Float32Bytes(h) ==
    IF h = 0 THEN <<0, 0, 0, 0>>
    ELSE LET a == Abs(h)
             carry == Significand(a) = 16777216
             m == IF carry THEN 8388608 ELSE Significand(a)
             e == BitLength(a) - 2 + 127 + (IF carry THEN 1 ELSE 0)
         IN  <<m % 256,
               (m \div 256) % 256,
               ((m \div 65536) % 128) + 128 * (e % 2),
               (e \div 2) + (IF h < 0 THEN 128 ELSE 0)>>

Float32Exponent(b) == (b[4] % 128) * 2 + (b[3] \div 128)

Float32Fraction(b) == (b[3] % 128) * 65536 + b[2] * 256 + b[1]

\* struct.unpack("f", b) in halves: (2^23 + fraction) * 2^(exponent - 150),
\* for the bytes of zero and of the normal multiples of 0.5
Float32Halves(b) ==
    IF Float32Exponent(b) = 0 THEN 0
    ELSE (IF b[4] >= 128 THEN -1 ELSE 1)
         * (IF Float32Exponent(b) >= 149
            THEN (8388608 + Float32Fraction(b)) * Pow(2, Float32Exponent(b) - 149)
            ELSE (8388608 + Float32Fraction(b)) \div Pow(2, 149 - Float32Exponent(b)))

\* the characters of the model and their ASCII codes
AsciiChars ==
    <<"!", "-", ".", "0", "1", "2", "3", "4", "5", "6", "7", "8", "9", "=",
      "A", "F", "N", "T",
      "a", "b", "c", "d", "e", "f", "l", "m", "n", "o", "r", "s", "t", "u", "y">>

AsciiCodes ==
    <<33, 45, 46, 48, 49, 50, 51, 52, 53, 54, 55, 56, 57, 61,
      65, 70, 78, 84,
      97, 98, 99, 100, 101, 102, 108, 109, 110, 111, 114, 115, 116, 117, 121>>

Ord(c) == AsciiCodes[CHOOSE i \in 1..Len(AsciiChars) : AsciiChars[i] = c]

Chr(n) == AsciiChars[CHOOSE i \in 1..Len(AsciiCodes) : AsciiCodes[i] = n]

\* bytes.decode("UTF-8"): the bytes of the model are ASCII or the octet 255,
\* which no UTF-8 text holds
Utf8Valid(b) == \A i \in 1..Len(b) : b[i] < 128

Utf8Decoded(b) == [i \in 1..Len(b) |-> Chr(b[i])]

\* str.encode()
Utf8Encoded(x) ==
    IF x.t = "strrun"
    THEN [i \in 1..(x.v[1] + x.v[2]) |-> IF i <= x.v[1] THEN Ord("A") ELSE Ord("=")]
    ELSE [i \in 1..Len(x.v) |-> Ord(x.v[i])]

HexChars ==
    <<"0", "1", "2", "3", "4", "5", "6", "7", "8", "9", "a", "b", "c", "d", "e", "f">>

\* bytes.hex()
RECURSIVE HexText(_)
HexText(b) ==
    IF b = <<>> THEN <<>>
    ELSE <<HexChars[(b[1] \div 16) + 1], HexChars[(b[1] % 16) + 1]>> \o HexText(Tail(b))

\* struct.calcsize of the format's code
StructSize(f) ==
    CASE f \in {"bool", "uint8"} -> 1
      [] f = "uint16" -> 2
      [] f \in {"uint32", "int", "float"} -> 4
      [] f = "uint64" -> 8

\* struct.unpack(code, b)[0] on bytes of the right size
Unpacked(f, b) ==
    CASE f = "bool" -> PyBool(b[1] # 0)
      [] f = "int" -> PyInt(SignedValue(b))
      [] f = "float" -> PyFloat(Float32Halves(b))
      [] OTHER -> PyInt(LEValue(b))

\* the decoding at the head of set_value_from_ble
ble_decoded(b) ==
    CASE format \in NUMBER_TYPES \cup {"bool"} ->
            IF b.t # "bytes" THEN Raise("TypeError", "")
            ELSE IF Len(b.v) # StructSize(format) THEN Raise("struct.error", "")
            ELSE Ok(Unpacked(format, b.v))
      [] format = "string" ->
            IF b.t # "bytes" THEN Raise("AttributeError", "")
            ELSE IF ~Utf8Valid(b.v) THEN Raise("UnicodeDecodeError", "")
            ELSE Ok(PyStr(Utf8Decoded(b.v)))
      [] OTHER ->
            IF b.t # "bytes" THEN Raise("AttributeError", "")
            ELSE Ok(PyStr(HexText(b.v)))

\* set_value_from_ble(value): the decoding, then set_value on its result
set_value_from_ble_outcome(b) ==
    LET d == ble_decoded(b)
    IN  IF d.exc # "none" THEN d ELSE set_value_outcome(d.val)

\* self.value after a set_value_from_ble that would run the decoded value
\* through check_convert_value and store the result
ValueAfterBle_lenient(b) ==
    LET d == ble_decoded(b)
    IN  IF d.exc # "none" \/ "pw" \notin perms THEN value
        ELSE IF check_convert_value(d.val).exc # "none" THEN value
        ELSE check_convert_value(d.val).val

\* self.value after set_value_from_ble(value)
ValueAfterBle(b) ==
    LET d == ble_decoded(b)
    IN  IF d.exc # "none" THEN value ELSE ValueAfterSet(d.val)

\* get_value_for_ble(): the bytes of the formats it encodes, the value itself
\* for every other format
get_value_for_ble_outcome ==
    IF get_value_outcome.exc # "none" THEN get_value_outcome
    ELSE CASE format = "bool" ->
                 LET val == strtobool(value)
                 IN  IF val.exc # "none" THEN Raise("FormatError", "")
                     ELSE Ok(PyBytes(<<val.val.v>>))
           [] format = "int" ->
                 LET n == PyIntOf(value)
                 IN  IF n.exc # "none" THEN n
                     ELSE IF n.val.v < -2147483647 - 1 \/ n.val.v > 2147483647
                     THEN Raise("struct.error", "")
                     ELSE Ok(PyBytes(SignedBytes(n.val.v)))
           [] format = "float" ->
                 LET x == PyFloatOf(value)
                 IN  IF x.exc # "none" THEN x ELSE Ok(PyBytes(Float32Bytes(x.val.v)))
           [] format = "string" ->
                 IF ~IsStr(value) THEN Raise("AttributeError", "")
                 ELSE Ok(PyBytes(Utf8Encoded(value)))
           [] OTHER -> Ok(value)

(***************************************************************************)
(* The inputs of the model                                                 *)
(***************************************************************************)
\* the three-digit magnitudes of the written numbers reach MaxMagnitude
MaxMagnitude == 150

\* a number of seven significant digits
SevenDigits == 1234567

\* the numbers a caller writes or a peer sends
NumberCandidates ==
    {PyInt(n) : n \in {-55, -11, 3, 5, 25, 50, 55, MaxMagnitude, SevenDigits}}
        \cup {PyFloat(101), PyStr(<<"5", "5">>), PyStr(<<"a", "b", "c">>), PyNone}

BoolCandidates ==
    {PyStr(<<"1">>), PyStr(<<"t", "r", "u", "e">>), PyStr(<<"T", "r", "u", "e">>),
     PyStr(<<"m", "a", "y", "b", "e">>), PyBool(TRUE), PyBool(FALSE), PyInt(0), PyFloat(2)}

StringCandidates ==
    {PyStr(<<"a", "b", "c">>), PyStr(<<>>), PyRun(maxLen, 0), PyRun(maxLen + 1, 0), PyInt(5)}

\* base64 texts: well padded, badly padded, decoding to maxDataLen bytes and
\* to one byte more
DataCandidates ==
    {PyRun(4, 0), PyRun(2, 2), PyRun(5, 0), PyRun(2796203, 1), PyRun(2796204, 0),
     PyStr(<<"0", "a", "f", "f">>), PyStr(<<"0", "a">>), PyInt(5)}

Candidates(f) ==
    CASE f \in NUMBER_TYPES -> NumberCandidates
      [] f = "bool" -> BoolCandidates
      [] f = "string" -> StringCandidates
      [] OTHER -> DataCandidates

\* the bytes a peer sends over BLE: encodings of numbers and texts, and bytes
\* of the wrong size
BleNumbers == {3, 5, 50, 55, MaxMagnitude}

BleCandidates(f) ==
    {PyBytes(b) :
        b \in CASE f = "bool" -> {<<0>>, <<1>>, <<2>>, <<>>}
                [] f = "uint8" -> {<<n>> : n \in BleNumbers} \cup {<<1, 2>>}
                [] f = "uint16" -> {LEBytes(n, 2) : n \in BleNumbers \cup {300}} \cup {<<5>>}
                [] f = "uint32" ->
                      {LEBytes(n, 4) : n \in BleNumbers \cup {SevenDigits}} \cup {<<5>>}
                [] f = "uint64" ->
                      {LEBytes(n, 8) : n \in BleNumbers \cup {SevenDigits}} \cup {<<5>>}
                [] f = "int" -> {SignedBytes(n) : n \in BleNumbers \cup {-11}} \cup {<<5>>}
                [] f = "float" ->
                      {Float32Bytes(h) : h \in {2 * n : n \in BleNumbers} \cup {1, 101}}
                          \cup {<<5>>}
                [] f = "string" ->
                      {<<97, 98, 99>>, <<255>>, <<>>, [i \in 1..(maxLen + 1) |-> 65]}
                [] OTHER -> {<<10, 255>>, <<10>>, <<>>}}

\* minValue, maxValue, minStep and valid_values by name
Limits(lo, hi, step, vv) == [lo |-> lo, hi |-> hi, step |-> step, vv |-> vv]

NoConstraints == Limits(PyNone, PyNone, PyNone, PyNone)

Percent == Limits(PyInt(0), PyInt(100), PyInt(10), PyNone)

Signed == Limits(PyInt(-10), PyInt(10), PyNone, PyNone)

StepOne == Limits(PyNone, PyNone, PyInt(1), PyNone)

\* the configurations of the numeric characteristics, by format
Constraints(f) ==
    CASE f = "uint8" ->
            {NoConstraints, Percent, Signed, StepOne,
             Limits(PyInt(0), PyInt(25), PyInt(10), PyNone),
             Limits(PyInt(5), PyInt(100), PyInt(10), PyNone),
             Limits(PyNone, PyInt(100), PyNone, PyNone),
             Limits(PyNone, PyNone, PyNone, PyList(<<PyInt(1), PyInt(2), PyInt(5)>>)),
             Limits(PyInt(0), PyInt(3), PyNone, PyList(<<PyInt(5), PyInt(1)>>))}
      [] f = "int" -> {NoConstraints, Percent, Signed, Limits(PyNone, PyNone, PyInt(10), PyNone)}
      [] f = "float" ->
            {NoConstraints, Percent, Limits(PyFloat(0), PyFloat(200), PyFloat(1), PyNone)}
      [] f = "uint16" -> {NoConstraints, Limits(PyNone, PyInt(100), PyNone, PyNone)}
      [] f \in {"uint32", "uint64"} -> {NoConstraints, StepOne}
      [] OTHER -> {NoConstraints}

Formats == NUMBER_TYPES \cup {"bool", "string", "data"}

PermSets == {{"pr"}, {"pw"}, {"pr", "pw"}}

\* value= of the constructor call, when it is passed
InitialCandidates(f) ==
    {Absent} \cup (CASE f \in NUMBER_TYPES -> {PyInt(55)}
                     [] f = "bool" -> {PyBool(TRUE)}
                     [] f = "string" -> {PyStr(<<"a", "b", "c">>)}
                     [] OTHER -> {PyRun(4, 0)})

(***************************************************************************)
(* The state machine: one characteristic, constructed by Init and then     *)
(* called any number of times.                                             *)
(***************************************************************************)
Init ==
    /\ format \in Formats
    /\ perms \in PermSets
    /\ \E k \in Constraints(format) :
          /\ minValue = k.lo
          /\ maxValue = k.hi
          /\ minStep = k.step
          /\ valid_values = k.vv
    /\ kwargs_value \in InitialCandidates(format)
    /\ value = InitialValue(format, perms, minValue, maxValue, valid_values, kwargs_value)
    /\ ev = PyNone
    /\ last = Called("init", kwargs_value, Ok(PyNone), PyNone)

Configuration == <<format, perms, minValue, maxValue, minStep, valid_values, kwargs_value>>

\* set_value(new_val)
set_value ==
    \E new_val \in Candidates(format) :
        /\ value' = ValueAfterSet(new_val)
        /\ last' = Called("set_value", new_val, set_value_outcome(new_val), PyNone)
        /\ UNCHANGED <<Configuration, ev>>

\* get_value()
get_value ==
    /\ last' = Called("get_value", PyNone, get_value_outcome, get_value_outcome.val)
    /\ UNCHANGED <<Configuration, value, ev>>

\* set_events(new_val)
set_events ==
    \E new_val \in BOOLEAN :
        /\ ev' = PyBool(new_val)
        /\ last' = Called("set_events", PyBool(new_val), Ok(PyNone), PyNone)
        /\ UNCHANGED <<Configuration, value>>

\* set_value_from_ble(value): with bytes a peer sent, or with what
\* get_value_for_ble has just returned
set_value_from_ble ==
    \E b \in BleCandidates(format)
             \cup (IF last.op = "get_value_for_ble" /\ last.exc = "none"
                   THEN {last.ret} ELSE {}) :
        /\ value' = ValueAfterBle(b)
        /\ last' = Called("set_value_from_ble", b, set_value_from_ble_outcome(b), PyNone)
        /\ UNCHANGED <<Configuration, ev>>

\* get_value_for_ble()
get_value_for_ble ==
    /\ LET r == get_value_for_ble_outcome
       IN  last' = Called("get_value_for_ble", PyNone, r, r.val)
    /\ UNCHANGED <<Configuration, value, ev>>

\* check_convert_value(val, char): a function of the characteristic, which it
\* leaves as it is
convert_value ==
    \E val \in Candidates(format) :
        /\ LET r == check_convert_value(val)
           IN  last' = Called("check_convert_value", val, r, r.val)
        /\ UNCHANGED <<Configuration, value, ev>>

Next ==
    \/ set_value
    \/ set_value_from_ble
    \/ get_value
    \/ get_value_for_ble
    \/ set_events
    \/ convert_value

Spec == Init /\ [][Next]_vars

(***************************************************************************)
(* The vocabulary of the claims, stated apart from the operators above     *)
(***************************************************************************)
IsWrite(op) == op \in {"set_value", "set_value_from_ble"}

PermissionViolation(l, code) ==
    l.exc = "CharacteristicPermissionError" /\ l.code = code

FormatViolation(l) == l.exc = "FormatError"

\* the offset of the step grid: min or 0
GridOffset == IF minValue # PyNone THEN Halves(minValue) ELSE 0

\* h halves lie on the step grid
OnGrid(h) == minStep # PyNone => (h - GridOffset) % Halves(minStep) = 0

WithinBounds(h) ==
    /\ minValue # PyNone => Halves(minValue) <= h
    /\ maxValue # PyNone => h <= Halves(maxValue)

Enumerated(h) ==
    valid_values # PyNone =>
        \E i \in 1..Len(valid_values.v) : Halves(valid_values.v[i]) = h

\* every active constraint holds of h halves
SatisfiesConstraints(h) == WithinBounds(h) /\ OnGrid(h) /\ Enumerated(h)

\* the Python type a stored number of the format has
HasNumberType(v) ==
    IF format \in INTEGER_TYPES THEN v.t = "int" ELSE v.t = "float"

\* the value has the format's type and satisfies every active constraint
WellFormed(v) ==
    CASE format \in NUMBER_TYPES -> HasNumberType(v) /\ SatisfiesConstraints(Halves(v))
      [] format = "bool" -> v.t \in {"bool", "int"} /\ v.v \in {0, 1}
      [] format = "string" -> IsStr(v) /\ PyLen(v) <= 64
      [] OTHER -> IsStr(v)

C2_AbsentWithoutRead == "pr" \notin perms => value = PyNone

\* C2, amended: without the read permission the value is absent after
\* construction and until a write succeeds; a successful write stores it
C2_AbsentUntilWritten ==
    /\ ("pr" \notin perms /\ last.op = "init") => value = PyNone
    /\ [][("pr" \notin perms /\ value' # value)
             => IsWrite(last'.op) /\ last'.exc = "none" /\ value' # PyNone]_vars

\* a write-only characteristic holds the value a write stored
C2_Witness == "pr" \notin perms /\ last.op = "set_value" /\ value # PyNone

\* C3: a set_value without the write permission raises the read-only status
\* and a get_value without the read permission raises the write-only status,
\* whatever the candidate, and neither changes the characteristic
C3_ForbiddenCallsFail ==
    [][/\ (last'.op = "set_value" /\ "pw" \notin perms) =>
             /\ PermissionViolation(last', "CANT_WRITE_READ_ONLY")
             /\ UNCHANGED <<value, ev, Configuration>>
       /\ (last'.op = "get_value" /\ "pr" \notin perms) =>
             /\ PermissionViolation(last', "CANT_READ_WRITE_ONLY")
             /\ UNCHANGED <<value, ev, Configuration>>]_vars

\* a read-only characteristic has refused a candidate that satisfies its constraints
C3_Witness ==
    /\ last.op = "set_value" /\ "pw" \notin perms
    /\ last.arg = PyInt(50) /\ maxValue = PyInt(100)
    /\ PermissionViolation(last, "CANT_WRITE_READ_ONLY")
    /\ value # PyNone

\* C4: a write that fails with FormatError leaves every field as it was, and
\* the value changes only in a write that raises nothing
C4_ValidationPrecedesMutation ==
    [][/\ (IsWrite(last'.op) /\ FormatViolation(last')) =>
             UNCHANGED <<value, ev, Configuration>>
       /\ value' # value => IsWrite(last'.op) /\ last'.exc = "none"]_vars

\* a write was refused with FormatError after an earlier write had stored 50
C4_Witness ==
    /\ last.op = "set_value" /\ FormatViolation(last)
    /\ last.arg = PyInt(55) /\ minStep # PyNone
    /\ value = PyInt(50)
    /\ kwargs_value # value

\* the bytes are of the size the format's struct code wants
RightSize(b) == b.t = "bytes" /\ Len(b.v) = StructSize(format)

NumberLike(x) == x.t \in {"int", "float"} \/ (x.t = "str" /\ IsDecimalText(x.v))

\* the number the candidate reads as, in halves
NumberHalves(x) == IF x.t = "str" THEN HalvesOfText(x.v) ELSE Halves(x)

\* C6: set_value(v) of an int, a float or a text on a writable numeric
\* characteristic succeeds with value == v exactly when v reads as a number
\* that satisfies min, max, step and valid_values, and fails with FormatError
\* otherwise
C6_WriteAcceptsExactlyTheValid ==
    (/\ last.op = "set_value" /\ format \in NUMBER_TYPES /\ "pw" \in perms
     /\ last.arg.t \in {"int", "float", "str"})
        => IF NumberLike(last.arg) /\ SatisfiesConstraints(NumberHalves(last.arg))
           THEN last.exc = "none" /\ Halves(value) = NumberHalves(last.arg)
           ELSE FormatViolation(last)

\* the nearest bound of [min, max], or the number itself within them
ClampSpec(h) ==
    IF minValue # PyNone /\ h < Halves(minValue) THEN Halves(minValue)
    ELSE IF maxValue # PyNone /\ h > Halves(maxValue) THEN Halves(maxValue)
    ELSE h

\* d / s rounded to the nearest integer in exact arithmetic, ties away from zero
NearestStep(d, s) == (IF d < 0 THEN -1 ELSE 1) * ((2 * Abs(d) + s) \div (2 * s))

\* offset + round_half_up((c - offset) / step) * step in exact arithmetic
ExactSnap(c) ==
    IF minStep = PyNone THEN c
    ELSE GridOffset + NearestStep(c - GridOffset, Halves(minStep)) * Halves(minStep)

\* the cast to the format: the nearest integer, ties to even, or the float
CastSpec(h) ==
    IF format = "float" \/ h % 2 = 0 THEN h
    ELSE IF ((h - 1) \div 2) % 2 = 0 THEN h - 1 ELSE h + 1

IsConvert(l) == l.op = "check_convert_value" /\ format \in NUMBER_TYPES

\* C7 as claimed: check_convert_value clamps and then returns
\* offset + round_half_up((clamped - offset) / step) * step
C7_CoerceIsClampThenSnap ==
    (IsConvert(last) /\ NumberLike(last.arg))
        => /\ last.exc = "none"
           /\ LET e == ExactSnap(ClampSpec(NumberHalves(last.arg)))
              IN  (format = "float" \/ e % 2 = 0) => Halves(last.ret) = e

\* the difference, the quotient and the result need no more than prec digits
WithinPrecision(c) ==
    LET d == Abs(c - GridOffset)
    IN  /\ d < 200000
        /\ Abs(ExactSnap(c)) < 200000
        /\ minStep # PyNone =>
              /\ d < 10000 * Halves(minStep)
              /\ (100 * d) % Halves(minStep) = 0

\* C7, amended: check_convert_value never refuses a number; it clamps to the
\* nearest bound and, when step is set, snaps to the step grid in decimal
\* arithmetic of six significant digits, ties away from zero, then casts to
\* the format.  The result is offset + round_half_up((clamped - offset) /
\* step) * step whenever the difference, the quotient and the result have at
\* most six significant digits; beyond that the rounding shows: with step 1,
\* a number of seven digits comes back rounded to the nearest ten.  No
\* valid_values check is applied
C7_CoerceIsClampThenSnapAtSixDigits ==
    (IsConvert(last) /\ NumberLike(last.arg))
        => /\ last.exc = "none"
           /\ HasNumberType(last.ret)
           /\ LET c == ClampSpec(NumberHalves(last.arg))
              IN  /\ WithinPrecision(c) => Halves(last.ret) = CastSpec(ExactSnap(c))
                  /\ (/\ last.arg = PyInt(SevenDigits)
                      /\ minStep = PyInt(1) /\ minValue = PyNone /\ maxValue = PyNone)
                        => Halves(last.ret) = 2 * (((SevenDigits + 5) \div 10) * 10)

\* 55 was converted for a characteristic of min 0, max 100 and step 10, to 60
C7_Witness ==
    /\ IsConvert(last) /\ last.arg = PyInt(55)
    /\ minValue = PyInt(0) /\ maxValue = PyInt(100) /\ minStep = PyInt(10)
    /\ last.ret = PyInt(60)

\* the default of a format without constraints
DefaultSpec ==
    CASE format \in INTEGER_TYPES -> PyInt(ClampSpec(0) \div 2)
      [] format = "float" -> PyFloat(ClampSpec(0))
      [] format = "bool" -> PyBool(FALSE)
      [] format = "string" -> PyStr(<<>>)
      [] OTHER -> PyNone

\* C8: a readable characteristic starts with the explicit initial value, else
\* with the first of valid_values, else with the format default, which only
\* clamping into [min, max] changes
C8_DefaultIsClampedFormatDefault ==
    (last.op = "init" /\ "pr" \in perms)
        => IF kwargs_value # Absent THEN value = kwargs_value
           ELSE IF valid_values # PyNone /\ Len(valid_values.v) > 0
           THEN value = valid_values.v[1]
           ELSE PyEq(value, DefaultSpec)

FixedWidthFormats == {"bool", "uint8", "uint16", "uint32", "uint64", "int", "float"}

\* the value lies in the range of the format
InFormatRange(v) ==
    /\ IsNum(v)
    /\ CASE format = "bool" -> v.v \in {0, 1}
         [] format = "uint8" -> v.t = "int" /\ v.v \in 0..255
         [] format = "uint16" -> v.t = "int" /\ v.v \in 0..65535
         [] format \in {"uint32", "uint64"} -> v.t = "int" /\ v.v >= 0
         [] format = "int" -> v.t = "int"
         [] OTHER -> v.t = "float" /\ Abs(v.v) < 33554432

\* C9: on a readable and writable characteristic of a fixed-width format
\* without constraints, what get_value_for_ble returns for a value in the
\* format's range, fed to set_value_from_ble, is accepted and leaves the value
\* as it was
C9_BleRoundTrip ==
    [][(/\ last.op = "get_value_for_ble" /\ last.exc = "none"
        /\ last'.op = "set_value_from_ble" /\ last'.arg = last.ret
        /\ format \in FixedWidthFormats
        /\ {"pr", "pw"} \subseteq perms
        /\ minValue = PyNone /\ maxValue = PyNone
        /\ minStep = PyNone /\ valid_values = PyNone
        /\ InFormatRange(value))
          => /\ last'.exc = "none"
             /\ IsNum(value') /\ Halves(value') = Halves(value)]_vars

\* C10: what check_convert_value returns for a numeric characteristic lies
\* within [min, max], whatever the input and the step
C10_CoerceResultWithinBounds ==
    (IsConvert(last) /\ last.exc = "none") => WithinBounds(Halves(last.ret))

====
